---------------------------- MODULE Spec2Model ----------------------------
(***************************************************************************)
(* A model of tr (trickster), version 1.3: src/trickster.hpp:405-851.      *)
(*                                                                         *)
(* Strings are sequences of one-character strings; positions are the      *)
(* 0-based positions of std::string.  std::size_t values stay small       *)
(* except std::string::npos = 2^64-1, which is written -1 so that          *)
(* npos + n wraps to n - 1 exactly as the unsigned arithmetic of the code  *)
(* does.  64-bit numbers are sequences of 16 hexadecimal digits (most      *)
(* significant first) or of 8 bytes (least significant first).             *)
(***************************************************************************)
EXTENDS Integers, Sequences, FiniteSets, TLC

(***************************************************************************)
(* Bounds of the model.                                                    *)
(***************************************************************************)
MemSize == 8
MaxWrites == 1
MaxRegions == 3

(***************************************************************************)
(* Characters and std::string.                                             *)
(***************************************************************************)
Chars(s) == [i \in 1..Len(s) |-> SubSeq(s, i, i)]

\* The printable ASCII characters in code order, from 32 (space) to 126; the
\* double quote (34), the backslash (92) and the grave accent (96) never occur
\* in the model's strings and hold their places as "?q", "?b" and "?g".
AsciiPrintable ==
  <<" ", "!", "?q">> \o Chars("#$%&'") \o <<"(", ")", "*">>
    \o Chars("+,-./0123456789:;<=>?@")
    \o Chars("ABCDEFGHIJKLMNOPQRSTUVWXYZ[") \o <<"?b">> \o Chars("]^_") \o <<"?g">>
    \o Chars("abcdefghijklmnopqrstuvwxyz{|}~")

\* the code of a character, as unsigned char
Ord(c) == IF c = "\t" THEN 9
          ELSE 31 + (CHOOSE i \in 1..Len(AsciiPrintable) : AsciiPrintable[i] = c)

npos == -1

Min(a, b) == IF a < b THEN a ELSE b

isdigit(c) == c \in {"0", "1", "2", "3", "4", "5", "6", "7", "8", "9"}

isspace(c) == c \in {" ", "\t", "\n", "\r", "\f"}

\* std::string::find / find_first_of with a start position
RECURSIVE find_from(_, _, _)
find_from(s, pat, pos) ==
  IF pos + Len(pat) > Len(s) THEN npos
  ELSE IF SubSeq(s, pos + 1, pos + Len(pat)) = pat THEN pos
  ELSE find_from(s, pat, pos + 1)

find(s, pat) == find_from(s, pat, 0)

find_first_of(s, c, pos) == find_from(s, <<c>>, pos)

RECURSIVE find_last_of_from(_, _, _)
find_last_of_from(s, c, i) ==
  IF i = 0 THEN npos
  ELSE IF s[i] = c THEN i - 1
  ELSE find_last_of_from(s, c, i - 1)

find_last_of(s, c) == find_last_of_from(s, c, Len(s))

\* std::string::substr(pos, count) throws std::out_of_range when pos > size()
substr_throws(s, pos) == pos = npos \/ pos > Len(s)

substr(s, pos, count) ==
  IF count = npos THEN SubSeq(s, pos + 1, Len(s))
  ELSE SubSeq(s, pos + 1, Min(pos + count, Len(s)))

\* std::string::erase(0, count)
erase0(s, count) == SubSeq(s, Min(count, Len(s)) + 1, Len(s))

only_digits(s) == \A i \in 1..Len(s) : isdigit(s[i])

(***************************************************************************)
(* 64-bit unsigned numbers as 16 hexadecimal digits, most significant      *)
(* first, and the conversions std::stoul / std::stol in base 16.           *)
(***************************************************************************)
HexDigits == Chars("0123456789abcdef")

HexDigitsUpper == Chars("0123456789ABCDEF")

isxdigit(c) == \E i \in 1..16 : HexDigits[i] = c \/ HexDigitsUpper[i] = c

xdigit_value(c) == (CHOOSE i \in 1..16 : HexDigits[i] = c \/ HexDigitsUpper[i] = c) - 1

RECURSIVE strip_zeros(_)
strip_zeros(d) == IF Len(d) > 0 /\ d[1] = 0 THEN strip_zeros(Tail(d)) ELSE d

\* the value of at most 16 significant digits, as a 64-bit number
RECURSIVE to64(_)
to64(d) == IF Len(d) >= 16 THEN d ELSE to64(<<0>> \o d)

\* 2^64 - v: the conversion of -v to an unsigned 64-bit number
RECURSIVE negate64_from(_, _, _)
negate64_from(v, i, carry) ==
  IF i = 0 THEN <<>>
  ELSE LET t == (15 - v[i]) + carry
       IN  Append(negate64_from(v, i - 1, t \div 16), t % 16)

negate64(v) == negate64_from(v, 16, 1)

RECURSIVE skip_space(_, _)
skip_space(s, i) == IF i <= Len(s) /\ isspace(s[i]) THEN skip_space(s, i + 1) ELSE i

RECURSIVE xdigit_run(_, _)
xdigit_run(s, i) ==
  IF i <= Len(s) /\ isxdigit(s[i]) THEN <<xdigit_value(s[i])>> \o xdigit_run(s, i + 1)
  ELSE <<>>

\* strtoul / strtol in base 16: leading white space, an optional sign, an
\* optional 0x prefix, then the longest run of hexadecimal digits.
sign_at(s, i) == i <= Len(s) /\ s[i] \in {"+", "-"}

prefix_at(s, j) ==
  /\ j + 2 <= Len(s)
  /\ s[j] = "0"
  /\ s[j + 1] \in {"x", "X"}
  /\ isxdigit(s[j + 2])

after_sign(s, i) == IF sign_at(s, i) THEN i + 1 ELSE i

after_prefix(s, j) == IF prefix_at(s, j) THEN j + 2 ELSE j

scanned_number(negative, run) ==
  [negative |-> negative, none |-> Len(run) = 0, digits |-> strip_zeros(run)]

strto_from(s, i) ==
  scanned_number(sign_at(s, i) /\ s[i] = "-",
                 xdigit_run(s, after_prefix(s, after_sign(s, i))))

strto_scan(s) == strto_from(s, skip_space(s, 1))

\* the 64-bit value of a scanned number; a minus sign negates it modulo 2^64
scanned_value(negative, v) == IF negative THEN negate64(v) ELSE v

LongMin == [i \in 1..16 |-> IF i = 1 THEN 8 ELSE 0]

\* std::stoul( s, nullptr, 16 ) throws std::invalid_argument when no digit
\* is converted and std::out_of_range when the value exceeds 64 bits
unsigned_out_of_range(r) == r.none \/ Len(r.digits) > 16

stoul_throws(s) == unsigned_out_of_range(strto_scan(s))

unsigned_value(r) == scanned_value(r.negative, to64(r.digits))

stoul(s) == unsigned_value(strto_scan(s))

\* std::stol( s, nullptr, 16 ) is out of range beyond LONG_MAX / LONG_MIN;
\* the code stores its result in a std::uint64_t
signed_out_of_range(r) ==
  \/ r.none
  \/ Len(r.digits) > 16
  \/ /\ Len(r.digits) = 16
     /\ r.digits[1] >= 8
     /\ ~(r.negative /\ r.digits = LongMin)

stol_throws(s) == signed_out_of_range(strto_scan(s))

stol(s) == unsigned_value(strto_scan(s))

(***************************************************************************)
(* _internal::map_memory_regions: the parser of /proc/<pid>/maps.          *)
(***************************************************************************)
\* the path and filename of a line that names a module or a special region
region_path(line) == erase0(line, 73)

region_filename(path) == erase0(path, find_last_of(path, "/") + 1)

\* the branch on ".so" and "[" at the end of the loop body; `indeterminate`
\* is the value read from region.special when the branch is not taken:
\* memory_region_t region is default-initialized, which leaves its bool
\* members uninitialized
region_names(named, has_bracket, path, indeterminate) ==
  [path     |-> IF named THEN path ELSE <<>>,
   special  |-> IF named THEN has_bracket ELSE indeterminate,
   filename |-> IF named THEN region_filename(path) ELSE <<>>]

line_names(line, has_so, has_bracket, indeterminate) ==
  region_names(has_so \/ has_bracket, has_bracket, region_path(line), indeterminate)

\* the substr and stoul / stol calls of the loop body, in the code's order:
\* c1 is the position of '-', c2 of the first ' ', c5 the position after the
\* ' ' that follows the offset
parse_throws(line, c1, c2, c5) ==
  \/ stoul_throws(substr(line, 0, c1))
  \/ substr_throws(line, c1 + 1) \/ stoul_throws(substr(line, c1 + 1, c2))
  \/ substr_throws(line, c2 + 1) \/ substr_throws(line, c2 + 2)
  \/ substr_throws(line, c2 + 3) \/ substr_throws(line, c2 + 4)
  \/ substr_throws(line, c2 + 6) \/ stoul_throws(substr(line, c2 + 6, 8))
  \/ substr_throws(line, c5) \/ stol_throws(substr(line, c5, 2))
  \/ substr_throws(line, c5 + 3) \/ stol_throws(substr(line, c5 + 3, 2))
  \/ substr_throws(line, c5 + 6) \/ stol_throws(substr(line, c5 + 6, 9))

\* a region whose permission flags are read one column to the right
parse_region_shifted(line, c1, c2, c5, names) ==
  [start        |-> stoul(substr(line, 0, c1)),
   end          |-> stoul(substr(line, c1 + 1, c2)),
   readable     |-> substr(line, c2 + 2, 1) = <<"r">>,
   writable     |-> substr(line, c2 + 3, 1) = <<"w">>,
   executable   |-> substr(line, c2 + 4, 1) = <<"x">>,
   shared       |-> substr(line, c2 + 5, 1) # <<"p">>,
   offset       |-> stoul(substr(line, c2 + 6, 8)),
   device_major |-> stol(substr(line, c5, 2)),
   device_minor |-> stol(substr(line, c5 + 3, 2)),
   inode        |-> stol(substr(line, c5 + 6, 9)),
   path         |-> names.path,
   special      |-> names.special,
   filename     |-> names.filename]

parse_region(line, c1, c2, c5, names) ==
  [start        |-> stoul(substr(line, 0, c1)),
   end          |-> stoul(substr(line, c1 + 1, c2)),
   readable     |-> substr(line, c2 + 1, 1) = <<"r">>,
   writable     |-> substr(line, c2 + 2, 1) = <<"w">>,
   executable   |-> substr(line, c2 + 3, 1) = <<"x">>,
   shared       |-> substr(line, c2 + 4, 1) # <<"p">>,
   offset       |-> stoul(substr(line, c2 + 6, 8)),
   device_major |-> stol(substr(line, c5, 2)),
   device_minor |-> stol(substr(line, c5 + 3, 2)),
   inode        |-> stol(substr(line, c5 + 6, 9)),
   path         |-> names.path,
   special      |-> names.special,
   filename     |-> names.filename]

parse_at(line, indeterminate, c1, c2, c5) ==
  IF parse_throws(line, c1, c2, c5) THEN [throws |-> TRUE]
  ELSE [throws |-> FALSE,
        region |-> parse_region(line, c1, c2, c5,
                     line_names(line, find(line, Chars(".so")) # npos,
                                find(line, <<"[">>) # npos, indeterminate))]

\* The body of the getline loop for one line.
parse_line(line, indeterminate) ==
  parse_at(line, indeterminate, find_first_of(line, "-", 0),
           find_first_of(line, " ", 0),
           find_first_of(line, " ", find_first_of(line, " ", 0) + 6) + 1)

\* The getline loop over a whole maps file: every line appends one region;
\* an exception thrown in the body leaves the function.
append_region(first, rest) ==
  IF first.throws \/ rest.throws THEN [throws |-> TRUE, regions |-> <<>>]
  ELSE [throws |-> FALSE, regions |-> <<first.region>> \o rest.regions]

RECURSIVE parse_lines(_, _)
parse_lines(lines, indeterminates) ==
  IF Len(lines) = 0 THEN [throws |-> FALSE, regions |-> <<>>]
  ELSE append_region(parse_line(Head(lines), Head(indeterminates)),
                     parse_lines(Tail(lines), Tail(indeterminates)))

(***************************************************************************)
(* The maps files of the host.                                             *)
(***************************************************************************)
\* A file is what std::ifstream makes of it: whether it opens, and its lines.
NoFile == [is_open |-> FALSE]

File(lines) == [is_open |-> TRUE, lines |-> lines]

ExampleLine ==
  Chars("00400000-00401000 r-xp 00000000 08:01 123456  /lib/libexample.so")

StackLine ==
  Chars("7fff00000000-7fff00021000 rw-p 00000000 00:00 0  [stack]")

\* lines as fs/proc/task_mmu.c prints them on a 64-bit host: the name starts
\* at column 73
LibcLine ==
  Chars("7f1c2a400000-7f1c2a5c0000 r-xp 00000000 08:01 1835789                    /usr/lib/libc-2.31.so")

LibmLine ==
  Chars("7f1c2a200000-7f1c2a3c0000 rw-s 00001000 08:01 1835790                    /usr/lib/libm.so.6")

HeapLine ==
  Chars("55d0c0a00000-55d0c0a21000 rw-p 00000000 00:00 0                          [heap]")

AnonLine ==
  Chars("7f1c2a5c0000-7f1c2a5c4000 rw-p 00000000 00:00 0 ")

\* a line cut short, and a line whose first field is not hexadecimal
ShortLine == Chars("00400000-00401000")

BadHexLine ==
  Chars("zz400000-00401000 r-xp 00000000 08:01 123456  /lib/libexample.so")

\* The maps files, by the name the process table gives them.
MapsFiles ==
  [example  |-> File(<<ExampleLine, StackLine>>),
   kernel   |-> File(<<LibcLine, AnonLine, HeapLine>>),
   shared   |-> File(<<LibmLine, LibcLine, LibmLine>>),
   badhex   |-> File(<<LibcLine, BadHexLine>>),
   short    |-> File(<<LibcLine, ShortLine>>),
   empty    |-> File(<<>>),
   unopened |-> NoFile]

\* The values the uninitialized region.special of each line can hold: one
\* boolean per line that assigns none (FALSE stands in for the lines that do
\* assign it, where parse_line does not read the value).
IndeterminateValues(maps) ==
  IF ~maps.is_open THEN {<<>>}
  ELSE { f \in [1..Len(maps.lines) -> BOOLEAN] :
           \A i \in 1..Len(maps.lines) :
             (find(maps.lines[i], Chars(".so")) # npos \/ find(maps.lines[i], <<"[">>) # npos)
               => ~f[i] }

\* The getline loop of _internal::map_memory_regions on one maps file, for
\* every value of the indeterminates.
RECURSIVE ParsedChoices(_, _)
ParsedChoices(maps, choices) ==
  LET indeterminates == CHOOSE c \in choices : TRUE
      parsed == IF maps.is_open THEN parse_lines(maps.lines, indeterminates)
                ELSE [throws |-> FALSE, regions |-> <<>>]
  IN  IF choices = {indeterminates} THEN indeterminates :> parsed
      ELSE (indeterminates :> parsed) @@ ParsedChoices(maps, choices \ {indeterminates})

RECURSIVE ParsedFiles(_)
ParsedFiles(names) ==
  LET name == CHOOSE n \in names : TRUE
      parsed == ParsedChoices(MapsFiles[name], IndeterminateValues(MapsFiles[name]))
  IN  IF names = {name} THEN name :> parsed
      ELSE (name :> parsed) @@ ParsedFiles(names \ {name})

\* the parse of every maps file of the host
ParsedMaps == ParsedFiles(DOMAIN MapsFiles)

(***************************************************************************)
(* The process table /proc: a sequence of directory entries in the order   *)
(* std::filesystem::directory_iterator yields them.                        *)
(***************************************************************************)
\* std::to_string( int )
RECURSIVE to_string_digits(_)
to_string_digits(n) ==
  IF n < 10 THEN <<HexDigits[n + 1]>>
  ELSE to_string_digits(n \div 10) \o <<HexDigits[(n % 10) + 1]>>

to_string(n) == IF n < 0 THEN <<"-">> \o to_string_digits(-n) ELSE to_string_digits(n)

\* std::stoi on a string of decimal digits
RECURSIVE stoi(_)
stoi(s) ==
  IF Len(s) = 0 THEN 0
  ELSE 10 * stoi(SubSeq(s, 1, Len(s) - 1)) + xdigit_value(s[Len(s)])

\* _internal::get_pid_by_name.  `ndebug` tells whether the build defines
\* NDEBUG, which compiles tr_assert away.  `scanned` counts the directory
\* entries the loop has visited.
RECURSIVE get_pid_scan(_, _, _)
get_pid_scan(process_name, table, i) ==
  IF i > Len(table) THEN [has_value |-> FALSE, value |-> 0, scanned |-> Len(table)]
  ELSE LET process == table[i]
       IN  IF ~process.is_directory THEN get_pid_scan(process_name, table, i + 1)
           ELSE IF ~only_digits(process.name) THEN get_pid_scan(process_name, table, i + 1)
           ELSE IF process.comm.is_open /\ Head(process.comm.lines) = process_name
                THEN [has_value |-> TRUE, value |-> stoi(process.name), scanned |-> i]
           ELSE get_pid_scan(process_name, table, i + 1)

\* a lookup that walks the table from its end
get_pid_from_end(process_name, table, ndebug) ==
  [aborts    |-> ~ndebug /\ Len(process_name) = 0,
   has_value |-> get_pid_scan(process_name,
                              [i \in 1..Len(table) |-> table[Len(table) + 1 - i]],
                              1).has_value,
   value     |-> get_pid_scan(process_name,
                              [i \in 1..Len(table) |-> table[Len(table) + 1 - i]],
                              1).value,
   scanned   |-> get_pid_scan(process_name,
                              [i \in 1..Len(table) |-> table[Len(table) + 1 - i]],
                              1).scanned]

get_pid_by_name(process_name, table, ndebug) ==
  IF ~ndebug /\ Len(process_name) = 0
  THEN [aborts |-> TRUE, has_value |-> FALSE, value |-> 0, scanned |-> 0]
  ELSE LET r == get_pid_scan(process_name, table, 1)
       IN  [aborts |-> FALSE, has_value |-> r.has_value, value |-> r.value,
            scanned |-> r.scanned]

\* The search of _internal::map_memory_regions( pid ) for its file: the name
\* of the maps file of the first entry named pid whose maps file opens, or
\* "unopened" when there is none.
RECURSIVE open_maps_scan(_, _, _)
open_maps_scan(pid, table, i) ==
  IF i > Len(table) THEN "unopened"
  ELSE LET process == table[i]
       IN  IF ~process.is_directory THEN open_maps_scan(pid, table, i + 1)
           ELSE IF ~only_digits(process.name) THEN open_maps_scan(pid, table, i + 1)
           ELSE IF process.name = to_string(pid) /\ MapsFiles[process.maps].is_open
                THEN process.maps
           ELSE open_maps_scan(pid, table, i + 1)

open_maps(pid, table) == open_maps_scan(pid, table, 1)

\* a parser that raises when it finds no maps file to read
map_raises_when_missing(pid, table, indeterminates) ==
  IF open_maps(pid, table) = "unopened" THEN [throws |-> TRUE, regions |-> <<>>]
  ELSE ParsedMaps[open_maps(pid, table)][indeterminates]

\* _internal::map_memory_regions( pid ): the regions of that file, or the
\* empty vector when there is no such file
internal_map_memory_regions(pid, table, indeterminates) ==
  ParsedMaps[open_maps(pid, table)][indeterminates]

(***************************************************************************)
(* utils::get_modules.                                                     *)
(***************************************************************************)
\* operator< of std::string: lexicographic on the character codes
RECURSIVE string_less(_, _)
string_less(a, b) ==
  IF Len(b) = 0 THEN FALSE
  ELSE IF Len(a) = 0 THEN TRUE
  ELSE IF Ord(Head(a)) < Ord(Head(b)) THEN TRUE
  ELSE IF Ord(Head(a)) > Ord(Head(b)) THEN FALSE
  ELSE string_less(Tail(a), Tail(b))

RECURSIVE sort_insert(_, _)
sort_insert(sorted, x) ==
  IF Len(sorted) = 0 THEN <<x>>
  ELSE IF string_less(x, Head(sorted)) THEN <<x>> \o sorted
  ELSE <<Head(sorted)>> \o sort_insert(Tail(sorted), x)

\* std::sort
RECURSIVE sort(_)
sort(v) == IF Len(v) = 0 THEN <<>> ELSE sort_insert(sort(Tail(v)), Head(v))

\* a vector left as it is, equal neighbours included
all_kept(v) == v

\* modules.erase( std::unique( ... ), modules.end( ) )
RECURSIVE unique(_)
unique(v) ==
  IF Len(v) <= 1 THEN v
  ELSE IF v[1] = v[2] THEN unique(Tail(v))
  ELSE <<Head(v)>> \o unique(Tail(v))

RECURSIVE collect_modules(_)
collect_modules(regions) ==
  IF Len(regions) = 0 THEN <<>>
  ELSE IF find(Head(regions).filename, Chars(".so")) # npos
       THEN <<Head(regions).filename>> \o collect_modules(Tail(regions))
  ELSE collect_modules(Tail(regions))

get_modules(regions) == unique(sort(collect_modules(regions)))

(***************************************************************************)
(* process_t::read_memory / write_memory / get_call_address: the values.   *)
(***************************************************************************)
invalid == -1

\* the two's complement bytes of an integer, least significant first
RECURSIVE to_bytes(_, _)
to_bytes(n, len) ==
  IF len = 0 THEN <<>> ELSE <<n % 256>> \o to_bytes(n \div 256, len - 1)

\* the conversion of the ssize_t result and of the int -1 to std::size_t
to_size_t(n) == to_bytes(n, 8)

\* std::uintptr_t addition, modulo 2^64
RECURSIVE add_bytes(_, _, _)
add_bytes(a, b, carry) ==
  IF Len(a) = 0 THEN <<>>
  ELSE LET t == Head(a) + Head(b) + carry
       IN  <<t % 256>> \o add_bytes(Tail(a), Tail(b), t \div 256)

add64(a, b) == add_bytes(a, b, 0)

\* T buffer {} after the kernel has copied `result` bytes from the remote
\* address into it; bytes beyond sizeof( T ) land outside the buffer
read_buffer(sizeof_T, memory, address, result) ==
  [i \in 1..sizeof_T |-> IF i <= result THEN memory[address + i - 1] ELSE 0]

\* the std::optional<T> that read_memory returns for a transfer result
read_memory_return(sizeof_T, memory, address, size, result) ==
  IF to_size_t(result) = to_size_t(-1)
  THEN [has_value |-> FALSE]
  ELSE [has_value |-> TRUE, value |-> read_buffer(sizeof_T, memory, address, result)]

\* the std::optional<bool> that write_memory returns for a transfer result
write_memory_return(size, result) ==
  IF to_size_t(result) = to_size_t(-1)
  THEN [has_value |-> FALSE]
  ELSE [has_value |-> TRUE, value |-> (to_size_t(result) = to_size_t(size))]

\* the bytes the kernel is handed by write_memory: the bytes of `data`, and
\* whatever follows the object when size exceeds sizeof( T )
write_local(data, size, junk) ==
  [i \in 1..size |-> IF i <= Len(data) THEN data[i] ELSE junk]

\* a transfer that leaves the target's memory as it was
write_dropped(memory, address, local, result) == memory

\* the target's memory after `result` bytes have been copied into it
write_remote(memory, address, local, result) ==
  [a \in DOMAIN memory |->
     IF result > 0 /\ a >= address /\ a < address + result
     THEN local[a - address + 1] ELSE memory[a]]

\* the std::optional<std::uintptr_t> that get_call_address makes of the
\* result of read_memory<std::uintptr_t>( address + 0x1, sizeof( std::uint32_t ) )
get_call_address_return(memory_opt, address) ==
  IF memory_opt.has_value
  THEN [has_value |-> TRUE,
        value |-> add64(memory_opt.value, to_bytes(address + 5, 8))]
  ELSE [has_value |-> FALSE]

(***************************************************************************)
(* The environment: process tables and memory images.                      *)
(***************************************************************************)
\* an entry of /proc: its name, whether it is a directory, its comm file and
\* the name of its maps file in MapsFiles
Entry(name, is_directory, comm, maps) ==
  [name |-> name, is_directory |-> is_directory, comm |-> comm, maps |-> maps]

SelfEntry == Entry(Chars("self"), TRUE, File(<<Chars("trtest")>>), "example")

UptimeEntry == Entry(Chars("uptime"), FALSE, NoFile, "unopened")

\* a process whose maps file the caller may not open
InitEntry == Entry(Chars("1"), TRUE, File(<<Chars("init")>>), "unopened")

ExampleEntry == Entry(Chars("7"), TRUE, File(<<Chars("trtest")>>), "example")

KernelEntry == Entry(Chars("12"), TRUE, File(<<Chars("trtest")>>), "kernel")

BadHexEntry == Entry(Chars("30"), TRUE, File(<<Chars("bad")>>), "badhex")

ShortEntry == Entry(Chars("31"), TRUE, File(<<Chars("short")>>), "short")

\* a process whose comm file yields an empty first line
NamelessEntry == Entry(Chars("40"), TRUE, File(<<<<>>>>), "shared")

ProcTables ==
  { <<SelfEntry, UptimeEntry, InitEntry, ExampleEntry, KernelEntry, BadHexEntry,
      ShortEntry, NamelessEntry>>,
    <<KernelEntry, UptimeEntry, ExampleEntry>> }

ProcessNames ==
  { Chars("trtest"), Chars("bad"), Chars("short"), Chars("init"), Chars("nope"), <<>>,
    Chars("Trtest"), Chars("trtes") }

\* images of the target's memory at addresses 0 .. MemSize - 1
AsMemory(bytes) == [a \in 0..(MemSize - 1) |-> IF a < Len(bytes) THEN bytes[a + 1] ELSE 0]

MemImages ==
  { AsMemory(<<232, 0, 0, 0, 0>>),
    AsMemory(<<232, 251, 255, 255, 255, 127>>) }

\* sizeof( int ) and sizeof( std::uintptr_t ), the types the callers use
TypeSizes == {4, 8}

\* the size argument: sizeof( T ) by default, or an explicit byte count
ByteCounts(sizeof_T) == {sizeof_T, 4, 8}

Addresses == {0, 4}

\* the values written, and the bytes that follow a written object in the
\* caller's memory
WriteValues == {-5}

JunkBytes == {0, 204}

(***************************************************************************)
(* The state: the build, the host, and one process_t with the last call    *)
(* made on it.                                                             *)
(***************************************************************************)
VARIABLES NDEBUG, proc, mem, pc, m_id, m_name, m_regions, halted, call, writes

vars == <<NDEBUG, proc, mem, pc, m_id, m_name, m_regions, halted, call, writes>>

is_valid == m_id # invalid

get_id == m_id

get_memory_regions == m_regions

\* a handle whose precondition checks never stop the program, whatever the build
assert_never_fails == FALSE

\* tr_assert( is_valid( ), "Process is invalid." ) stops the program unless
\* NDEBUG compiles it away
assert_fails == ~NDEBUG /\ ~is_valid

Live(pid) ==
  \E i \in 1..Len(proc) :
    /\ proc[i].is_directory
    /\ only_digits(proc[i].name)
    /\ stoi(proc[i].name) = pid

TransferCounts(size) == {1, size}

\* what process_vm_readv / process_vm_writev can return: -1, or the number
\* of bytes transferred, all of which lie in the target's memory
TransferResults(pid, address, size) ==
  IF ~Live(pid) THEN {-1}
  ELSE {-1} \cup {k \in TransferCounts(size) : address + k <= MemSize}

Transfer(syscall, pid, address, size, local_size) ==
  [syscall |-> syscall, pid |-> pid, remote_base |-> address, remote_len |-> size,
   local_len |-> size, local_size |-> local_size]

Init ==
  /\ NDEBUG \in BOOLEAN
  /\ proc \in ProcTables
  /\ mem \in MemImages
  /\ pc = "start"
  /\ m_id = invalid
  /\ m_name = <<>>
  /\ m_regions = <<>>
  /\ halted = "no"
  /\ call = [op |-> "none"]
  /\ writes = 0

\* process_t::process_t( process_name )
Construct(process_name) ==
  /\ pc = "start"
  /\ halted = "no"
  /\ LET r == get_pid_by_name(process_name, proc, NDEBUG)
     IN  /\ call' = [op |-> "process_t", process_name |-> process_name,
                     aborts |-> r.aborts, has_value |-> r.has_value,
                     value |-> r.value, scanned |-> r.scanned]
         /\ IF r.aborts
            THEN /\ halted' = "assert"
                 /\ UNCHANGED <<pc, m_id, m_name, m_regions>>
            ELSE /\ m_id' = (IF r.has_value THEN r.value ELSE invalid)
                 /\ m_name' = process_name
                 /\ m_regions' = <<>>
                 /\ pc' = "ready"
                 /\ halted' = halted
  /\ UNCHANGED <<NDEBUG, proc, mem, writes>>

\* a map_memory_regions that appends the parsed regions to the cache
MapMemoryRegionsAppends ==
  /\ pc = "ready"
  /\ halted = "no"
  /\ ~assert_fails
  /\ \E indeterminates \in DOMAIN ParsedMaps[open_maps(m_id, proc)] :
       /\ ~internal_map_memory_regions(m_id, proc, indeterminates).throws
       /\ m_regions' = m_regions \o
                         internal_map_memory_regions(m_id, proc, indeterminates).regions
  /\ call' = [op |-> "map_memory_regions", transfers |-> <<>>,
              maps |-> open_maps(m_id, proc), throws |-> FALSE,
              previous |-> m_regions]
  /\ UNCHANGED <<NDEBUG, proc, mem, pc, m_id, m_name, halted, writes>>

\* process_t::map_memory_regions( ) noexcept
MapMemoryRegions ==
  /\ pc = "ready"
  /\ halted = "no"
  /\ IF assert_fails
     THEN /\ halted' = "assert"
          /\ call' = [op |-> "map_memory_regions", transfers |-> <<>>]
          /\ UNCHANGED m_regions
     ELSE \E indeterminates \in DOMAIN ParsedMaps[open_maps(m_id, proc)] :
            LET r == internal_map_memory_regions(m_id, proc, indeterminates)
            IN  /\ call' = [op |-> "map_memory_regions", transfers |-> <<>>,
                            maps |-> open_maps(m_id, proc), throws |-> r.throws,
                            previous |-> m_regions]
                /\ IF r.throws
                   THEN halted' = "terminate" /\ UNCHANGED m_regions
                   ELSE halted' = halted /\ m_regions' = r.regions
  /\ UNCHANGED <<NDEBUG, proc, mem, pc, m_id, m_name, writes>>

\* process_t::read_memory<T>( address, size )
ReadMemory(sizeof_T, address, size) ==
  /\ pc = "ready"
  /\ halted = "no"
  /\ IF assert_fails
     THEN /\ halted' = "assert"
          /\ call' = [op |-> "read_memory", transfers |-> <<>>]
     ELSE \E result \in TransferResults(m_id, address, size), smashed \in BOOLEAN :
            /\ smashed => result > sizeof_T
            /\ call' = [op |-> "read_memory", sizeof_T |-> sizeof_T,
                        address |-> address, size |-> size,
                        transfers |-> <<Transfer("process_vm_readv", m_id, address,
                                                 size, sizeof_T)>>,
                        result |-> result, returns |-> ~smashed,
                        ret |-> read_memory_return(sizeof_T, mem, address, size, result)]
            /\ halted' = (IF smashed THEN "stack_smash" ELSE halted)
  /\ UNCHANGED <<NDEBUG, proc, mem, pc, m_id, m_name, m_regions, writes>>

\* process_t::write_memory<T>( address, data, size )
WriteMemory(sizeof_T, address, value, size) ==
  /\ pc = "ready"
  /\ halted = "no"
  /\ writes < MaxWrites
  /\ writes' = writes + 1
  /\ IF assert_fails
     THEN /\ halted' = "assert"
          /\ call' = [op |-> "write_memory", transfers |-> <<>>]
          /\ UNCHANGED mem
     ELSE \E result \in TransferResults(m_id, address, size), junk \in JunkBytes :
            LET data == to_bytes(value, sizeof_T)
                local == write_local(data, size, junk)
            IN  /\ (size <= sizeof_T) => junk = 0
                /\ call' = [op |-> "write_memory", sizeof_T |-> sizeof_T,
                            address |-> address, size |-> size, data |-> data,
                            transfers |-> <<Transfer("process_vm_writev", m_id, address,
                                                     size, sizeof_T)>>,
                            result |-> result, returns |-> TRUE,
                            ret |-> write_memory_return(size, result)]
                /\ mem' = write_remote(mem, address, local, result)
                /\ halted' = halted
  /\ UNCHANGED <<NDEBUG, proc, pc, m_id, m_name, m_regions>>

\* a get_call_address that drops the region cache on its way
GetCallAddressDropsCache(address) ==
  /\ pc = "ready"
  /\ halted = "no"
  /\ ~assert_fails
  /\ \E result \in TransferResults(m_id, address + 1, 4) :
       LET memory_opt == read_memory_return(8, mem, address + 1, 4, result)
       IN  call' = [op |-> "get_call_address", address |-> address,
                    transfers |-> <<Transfer("process_vm_readv", m_id,
                                             address + 1, 4, 8)>>,
                    result |-> result, returns |-> TRUE,
                    ret |-> get_call_address_return(memory_opt, address)]
  /\ m_regions' = <<>>
  /\ UNCHANGED <<NDEBUG, proc, mem, pc, m_id, m_name, halted, writes>>

\* process_t::get_call_address( address ) noexcept
GetCallAddress(address) ==
  /\ pc = "ready"
  /\ halted = "no"
  /\ IF assert_fails
     THEN /\ halted' = "assert"
          /\ call' = [op |-> "get_call_address", transfers |-> <<>>]
     ELSE \E result \in TransferResults(m_id, address + 1, 4) :
            LET memory_opt == read_memory_return(8, mem, address + 1, 4, result)
            IN  /\ call' = [op |-> "get_call_address", address |-> address,
                            transfers |-> <<Transfer("process_vm_readv", m_id,
                                                     address + 1, 4, 8)>>,
                            result |-> result, returns |-> TRUE,
                            ret |-> get_call_address_return(memory_opt, address)]
                /\ halted' = halted
  /\ UNCHANGED <<NDEBUG, proc, mem, pc, m_id, m_name, m_regions, writes>>

\* a get_modules that moves the filenames out of the cached regions
GetModulesMovesFilenames ==
  /\ pc = "ready"
  /\ halted = "no"
  /\ IF assert_fails
     THEN /\ halted' = "assert"
          /\ call' = [op |-> "get_modules", transfers |-> <<>>]
          /\ m_regions' = m_regions
     ELSE /\ call' = [op |-> "get_modules", transfers |-> <<>>,
                      regions |-> m_regions, ret |-> get_modules(m_regions)]
          /\ halted' = halted
          /\ m_regions' =
               [i \in DOMAIN m_regions |->
                  IF find(m_regions[i].filename, Chars(".so")) # npos
                  THEN [m_regions[i] EXCEPT !.filename = <<>>]
                  ELSE m_regions[i]]
  /\ UNCHANGED <<NDEBUG, proc, mem, pc, m_id, m_name, writes>>

\* utils::get_modules( process.get_memory_regions( ) )
GetModules ==
  /\ pc = "ready"
  /\ halted = "no"
  /\ IF assert_fails
     THEN /\ halted' = "assert"
          /\ call' = [op |-> "get_modules", transfers |-> <<>>]
     ELSE /\ call' = [op |-> "get_modules", transfers |-> <<>>,
                      regions |-> m_regions, ret |-> get_modules(m_regions)]
          /\ halted' = halted
  /\ UNCHANGED <<NDEBUG, proc, mem, pc, m_id, m_name, m_regions, writes>>

\* the host: the process the handle names exits and leaves the table
ProcessExits ==
  /\ pc = "ready"
  /\ halted = "no"
  /\ \E i \in 1..Len(proc) :
       /\ proc[i].is_directory
       /\ only_digits(proc[i].name)
       /\ stoi(proc[i].name) = m_id
       /\ proc' = SubSeq(proc, 1, i - 1) \o SubSeq(proc, i + 1, Len(proc))
  /\ UNCHANGED <<NDEBUG, mem, pc, m_id, m_name, m_regions, halted, call, writes>>

Next ==
  \/ \E process_name \in ProcessNames : Construct(process_name)
  \/ MapMemoryRegions
  \/ \E sizeof_T \in TypeSizes, address \in Addresses :
       \E size \in ByteCounts(sizeof_T) : ReadMemory(sizeof_T, address, size)
  \/ \E sizeof_T \in TypeSizes, address \in Addresses, value \in WriteValues :
       \E size \in ByteCounts(sizeof_T) : WriteMemory(sizeof_T, address, value, size)
  \/ \E address \in Addresses : GetCallAddress(address)
  \/ GetModules
  \/ ProcessExits

Spec == Init /\ [][Next]_vars

(***************************************************************************)
(* Properties.                                                             *)
(***************************************************************************)
IOOperations == {"read_memory", "write_memory", "map_memory_regions", "get_call_address"}

\* the last call was a map_memory_regions that got past its precondition
\* and read the named maps file
MappedFile(name) ==
  /\ call.op = "map_memory_regions"
  /\ halted # "assert"
  /\ call.maps = name

\* C1: parsing the two-line stream of the example (the /lib/libexample.so
\* line followed by the [stack] line) completes and yields exactly two
\* regions in that order, the first readable, not writable, executable, not
\* shared, with filename "libexample.so" and not special, and get_modules on
\* the pair returns exactly <<"libexample.so">>.
C1_ExampleStreamParsed ==
  MappedFile("example") =>
    /\ halted = "no"
    /\ Len(m_regions) = 2
    /\ m_regions[1].start = to64(<<0, 0, 4, 0, 0, 0, 0, 0>>)
    /\ m_regions[2].start = to64(<<7, 15, 15, 15, 0, 0, 0, 0, 0, 0, 0, 0>>)
    /\ m_regions[1].readable
    /\ ~m_regions[1].writable
    /\ m_regions[1].executable
    /\ ~m_regions[1].shared
    /\ m_regions[1].filename = Chars("libexample.so")
    /\ ~m_regions[1].special
    /\ get_modules(m_regions) = <<Chars("libexample.so")>>

\* the 64-bit two's complement bytes of a little-endian signed 32-bit value
sign_extend32(bytes) ==
  bytes \o (IF bytes[4] >= 128 THEN <<255, 255, 255, 255>> ELSE <<0, 0, 0, 0>>)

displacement_at(address) ==
  <<mem[address + 1], mem[address + 2], mem[address + 3], mem[address + 4]>>

\* C2: for every address A and every signed 32-bit displacement d, negative
\* ones included, stored little-endian in the 4 bytes at A + 1,
\* get_call_address(A) returns A + 5 + d when the 4-byte read succeeds in
\* full.
C2_CallTargetSigned ==
  (call.op = "get_call_address" /\ halted = "no" /\ call.result = 4) =>
    call.ret = [has_value |-> TRUE,
                value |-> add64(sign_extend32(displacement_at(call.address)),
                                to_bytes(call.address + 5, 8))]

\* the three outcomes of a transfer of `size` bytes
Outcome(result, size) ==
  IF result = -1 THEN "failure" ELSE IF result < size THEN "partial" ELSE "full"

\* every result the transfer of the last call could have had
PossibleResults(c) == {-1} \cup {k \in 1..c.size : c.address + k <= MemSize}

\* what the last call would have returned had its transfer ended with `result`
ReturnOf(c, result) ==
  IF c.op = "read_memory"
  THEN read_memory_return(c.sizeof_T, mem, c.address, c.size, result)
  ELSE write_memory_return(c.size, result)

\* C3: for read_memory and write_memory alike, the outcomes full, partial
\* and failure are pairwise distinguishable from the returned value: a
\* transfer of fewer bytes than requested is reported as partial and never
\* as failure, the error sentinel as failure and never as partial, and
\* neither as a full transfer.
C3_OutcomesDistinguishable ==
  (call.op \in {"read_memory", "write_memory"} /\ halted = "no") =>
    \A other \in PossibleResults(call) :
      Outcome(other, call.size) # Outcome(call.result, call.size) =>
        ReturnOf(call, other) # call.ret

\* C4: read_memory exposes the number of bytes transferred: for the same
\* handle, address and size, a read that transferred k < size bytes and a
\* read that transferred all size bytes return results the caller can tell
\* apart.
C4_PartialReadVisible ==
  (/\ call.op = "read_memory"
   /\ halted = "no"
   /\ call.result >= 0
   /\ call.result < call.size
   /\ call.address + call.size <= MemSize) =>
    call.ret # read_memory_return(call.sizeof_T, mem, call.address, call.size, call.size)

\* C5: when the transfer reports no error, write_memory returns a result
\* that carries the number of bytes requested, the number of bytes written
\* and the partial flag as separate observable fields: the number of bytes
\* written can be read off the returned value, so two transfers that wrote
\* different numbers of bytes return different values.
C5_WriteCountReturned ==
  (call.op = "write_memory" /\ halted = "no" /\ call.result # -1) =>
    /\ call.ret.has_value
    /\ \A other \in PossibleResults(call) \ {-1, call.result} :
         write_memory_return(call.size, other) # call.ret

\* the step is the construction of the handle from a name
ConstructStep == pc = "start" /\ call'.op = "process_t"

\* some live process of the table declares the name in its comm file
Declared(process_name, table) ==
  \E i \in 1..Len(table) :
    /\ table[i].is_directory
    /\ only_digits(table[i].name)
    /\ table[i].comm.is_open
    /\ Head(table[i].comm.lines) = process_name

\* C6: resolving a process name returns a miss without raising or aborting
\* both when the name is empty, in which case the process table is not
\* scanned at all, and when no live process declares that name.
C6_LookupMiss ==
  [][ConstructStep =>
       /\ Len(call'.process_name) = 0 =>
            ~call'.aborts /\ ~call'.has_value /\ call'.scanned = 0
       /\ ~Declared(call'.process_name, proc) =>
            ~call'.aborts /\ ~call'.has_value]_vars

\* C7: constructing a handle from any name, matching, non-matching or
\* empty, never aborts and scans the table at most once; afterwards the
\* cache is empty, get_id is the identifier found or the sentinel -1, and
\* is_valid is true exactly when a process was found.
C7_ConstructionNeverFails ==
  [][ConstructStep =>
       /\ ~call'.aborts
       /\ halted' = "no"
       /\ pc' = "ready"
       /\ call'.scanned <= Len(proc)
       /\ m_regions' = <<>>
       /\ get_id' = (IF call'.has_value THEN call'.value ELSE invalid)
       /\ is_valid' = call'.has_value]_vars

\* the step is an operation on a handle whose identifier is the sentinel
InvalidHandleStep == pc = "ready" /\ ~is_valid /\ call'.op \in IOOperations

\* the operation stopped on its precondition before doing any work: no
\* transfer was issued, nothing was returned, nothing was changed
HaltsOnPrecondition ==
  /\ halted' = "assert"
  /\ call'.transfers = <<>>
  /\ DOMAIN call' = {"op", "transfers"}
  /\ UNCHANGED <<mem, m_regions, m_id, m_name>>

\* C8, as stated: on a handle whose identifier is the invalid sentinel,
\* read_memory, write_memory, map_memory_regions and get_call_address halt
\* with a fatal contract violation before doing any work, whatever the
\* build.
C8_InvalidHandleHalts ==
  [][InvalidHandleStep => HaltsOnPrecondition]_vars

\* C8, amended: in a build that does not define NDEBUG, on a handle whose
\* identifier is the invalid sentinel, read_memory, write_memory,
\* map_memory_regions and get_call_address halt on the precondition
\* assertion before doing any work: no transfer with pid = -1 is issued and
\* no value is returned.
C8_InvalidHandleHaltsWithAsserts ==
  [][(~NDEBUG /\ InvalidHandleStep) => HaltsOnPrecondition]_vars

\* C8: a read on an invalid handle has stopped the program on the assertion
C8_Witness ==
  /\ ~NDEBUG
  /\ pc = "ready"
  /\ ~is_valid
  /\ call.op = "read_memory"
  /\ halted = "assert"

\* the last line of a maps file is malformed
MalformedFiles == {"badhex", "short"}

\* C9: if a line of the descriptor stream is shorter than the fixed-width
\* layout or has a malformed hexadecimal field, the whole parse is reported
\* as a failure the caller of map_memory_regions observes and recovers from,
\* and neither a region built from the malformed line nor a list truncated
\* at it is stored in the handle's cache.
C9_MalformedLineReported ==
  (call.op = "map_memory_regions" /\ halted # "assert"
     /\ call.maps \in MalformedFiles) =>
    /\ call.throws
    /\ halted = "no"
    /\ m_regions = <<>>

\* C10: the region cache is empty from construction until the first
\* map_memory_regions call, only map_memory_regions changes it, to the
\* regions it parsed, and read_memory, write_memory and get_call_address
\* leave the cache, the identifier and the name of the handle unchanged;
\* nothing changes the identity once the handle is constructed.
C10_CacheAndIdentityFrame ==
  [][/\ ConstructStep /\ pc' = "ready" => m_regions' = <<>>
     /\ pc = "ready" => UNCHANGED <<m_id, m_name>>
     /\ m_regions' # m_regions =>
          /\ call'.op = "map_memory_regions"
          /\ call'.maps = open_maps(m_id, proc)
          /\ \E indeterminates \in DOMAIN ParsedMaps[call'.maps] :
               m_regions' = ParsedMaps[call'.maps][indeterminates].regions
     /\ (call' # call /\ call'.op \in {"read_memory", "write_memory", "get_call_address"}) =>
          UNCHANGED <<m_regions, m_id, m_name>>]_vars

\* C10: a read has run on a handle whose cache holds mapped regions
C10_Witness ==
  /\ call.op = "read_memory"
  /\ halted = "no"
  /\ call.result > 0
  /\ m_regions # <<>>

\* the step is a map_memory_regions call on a valid handle that returns
MapStep ==
  /\ pc = "ready"
  /\ halted = "no"
  /\ is_valid
  /\ call'.op = "map_memory_regions"
  /\ proc' = proc
  /\ halted' = "no"

\* the number of lines of a maps file; none when it does not open
LineCount(maps) == IF maps.is_open THEN Len(maps.lines) ELSE 0

\* C11: after any sequence of map_memory_regions calls on a valid handle,
\* get_memory_regions returns exactly the result of the most recent parse:
\* each call replaces the previous snapshot wholesale, with one region per
\* line of the file read by that call, never appended to or merged with the
\* snapshot before, and when the process has disappeared the cache becomes
\* empty.
C11_SnapshotReplaced ==
  [][MapStep =>
       /\ \E indeterminates \in DOMAIN ParsedMaps[open_maps(m_id, proc)] :
            get_memory_regions' =
              ParsedMaps[open_maps(m_id, proc)][indeterminates].regions
       /\ Len(get_memory_regions') = LineCount(MapsFiles[open_maps(m_id, proc)])
       /\ ~Live(m_id) => get_memory_regions' = <<>>]_vars

\* C11: a map call on a handle whose process has disappeared has emptied a
\* cache that held regions
C11_Witness ==
  /\ call.op = "map_memory_regions"
  /\ halted = "no"
  /\ is_valid
  /\ ~Live(m_id)
  /\ call.previous # <<>>
  /\ get_memory_regions = <<>>

(***************************************************************************)
(* utils::get_modules as a function of any region vector.                  *)
(***************************************************************************)
ModuleFilenames ==
  {Chars("libb.so"), Chars("liba.so"), Chars("liba.so.1"), Chars("libaso"), <<>>}

\* a region of a mapped file with the given filename
ModuleRegion(filename) ==
  [start        |-> to64(<<4, 0, 0, 0, 0, 0>>),
   end          |-> to64(<<4, 0, 1, 0, 0, 0>>),
   readable     |-> TRUE,
   writable     |-> FALSE,
   executable   |-> TRUE,
   shared       |-> FALSE,
   offset       |-> to64(<<0>>),
   device_major |-> to64(<<8>>),
   device_minor |-> to64(<<1>>),
   inode        |-> to64(<<1, 2, 3>>),
   path         |-> Chars("/lib/") \o filename,
   special      |-> FALSE,
   filename     |-> filename]

RECURSIVE RegionVectors(_)
RegionVectors(n) ==
  IF n = 0 THEN {<<>>}
  ELSE RegionVectors(n - 1) \cup
       {Append(v, ModuleRegion(f)) :
          v \in {w \in RegionVectors(n - 1) : Len(w) = n - 1}, f \in ModuleFilenames}

RegionSequences == RegionVectors(MaxRegions)

\* utils::get_modules( regions ) called on a vector of the caller's
UtilsGetModules(regions) ==
  /\ call.op = "none"
  /\ call' = [op |-> "get_modules", transfers |-> <<>>,
              regions |-> regions, ret |-> get_modules(regions)]
  /\ UNCHANGED <<NDEBUG, proc, mem, pc, m_id, m_name, m_regions, halted, writes>>

NextModules == \E regions \in RegionSequences : UtilsGetModules(regions)

SpecModules == Init /\ [][NextModules]_vars

\* the filenames of a region vector that contain ".so"
SharedObjectNames(regions) ==
  {regions[i].filename : i \in {j \in 1..Len(regions) :
                                  find(regions[j].filename, Chars(".so")) # npos}}

StrictlyAscending(v) == \A i \in 1..(Len(v) - 1) : string_less(v[i], v[i + 1])

\* C12: for every region sequence, in any order and with any duplicate
\* filenames, get_modules returns a strictly ascending (lexicographic)
\* sequence without duplicates whose set of elements is exactly the set of
\* region filenames that contain the substring ".so".
C12_ModulesSortedUnique ==
  (call.op = "get_modules" /\ halted = "no") =>
    /\ StrictlyAscending(call.ret)
    /\ \A i, j \in 1..Len(call.ret) : call.ret[i] = call.ret[j] => i = j
    /\ {call.ret[i] : i \in 1..Len(call.ret)} = SharedObjectNames(call.regions)

\* C12: get_modules has run on regions whose filenames are out of order and
\* repeated, next to one without ".so"
C12_Witness ==
  /\ call.op = "get_modules"
  /\ halted = "no"
  /\ Len(call.regions) = 3
  /\ call.regions[1].filename = Chars("libb.so")
  /\ call.regions[2].filename = Chars("libaso")
  /\ call.regions[3].filename = Chars("libb.so")
  /\ call.ret = <<Chars("libb.so")>>

\* the bytes of the target's memory at [address, address + size)
bytes_at(memory, address, size) == [i \in 1..size |-> memory[address + i - 1]]

\* the call is a read or a write of a whole T that has transferred in full
FullTransferOf(c, op) ==
  /\ c.op = op
  /\ "result" \in DOMAIN c
  /\ c.size = c.sizeof_T
  /\ c.result = c.size

\* C13: for every fixed-size value v and every address, if
\* write_memory(address, v) reports a full transfer and no other write to
\* that range intervenes, a following read_memory of the same type at the
\* same address that also transfers in full returns v: the full write
\* leaves the bytes of v at the address, only a write changes the memory,
\* and a full read returns the bytes at the address; in particular the read
\* that follows the write returns v.
C13_WriteThenRead ==
  [][/\ (writes' # writes /\ FullTransferOf(call', "write_memory")) =>
          /\ call'.ret = [has_value |-> TRUE, value |-> TRUE]
          /\ bytes_at(mem', call'.address, call'.size) = call'.data
     /\ writes' = writes => mem' = mem
     /\ (call' # call /\ halted' = "no" /\ FullTransferOf(call', "read_memory")) =>
          call'.ret = [has_value |-> TRUE,
                       value |-> bytes_at(mem, call'.address, call'.size)]
     /\ (/\ halted = "no"
         /\ FullTransferOf(call, "write_memory")
         /\ call' # call
         /\ halted' = "no"
         /\ FullTransferOf(call', "read_memory")
         /\ call'.sizeof_T = call.sizeof_T
         /\ call'.address = call.address) =>
          call'.ret = [has_value |-> TRUE, value |-> call.data]]_vars

\* C13: a full read of a whole T has returned the value a write stored
C13_Witness ==
  /\ writes > 0
  /\ halted = "no"
  /\ FullTransferOf(call, "read_memory")
  /\ call.ret = [has_value |-> TRUE, value |-> to_bytes(-5, call.sizeof_T)]

\* some entry of the table is the directory of the process `pid` and its
\* maps file opens
MapsFileOpens(pid, table) ==
  \E i \in 1..Len(table) :
    /\ table[i].is_directory
    /\ only_digits(table[i].name)
    /\ stoi(table[i].name) = pid
    /\ MapsFiles[table[i].maps].is_open

\* the step is a map_memory_regions call that got past its precondition
ParserStep ==
  /\ pc = "ready"
  /\ halted = "no"
  /\ call'.op = "map_memory_regions"
  /\ proc' = proc
  /\ halted' # "assert"

\* C14: parsing the memory map of an identifier that names no live process,
\* the invalid sentinel -1 included, or whose maps file cannot be opened,
\* returns an empty region sequence and does not raise.
C14_MissingProcessEmpty ==
  [][(ParserStep /\ (~Live(m_id) \/ ~MapsFileOpens(m_id, proc))) =>
       /\ ~call'.throws
       /\ halted' = "no"
       /\ get_memory_regions' = <<>>]_vars

\* C14: the parser has run for the invalid sentinel and returned no region
C14_Witness ==
  /\ m_id = invalid
  /\ call.op = "map_memory_regions"
  /\ halted = "no"
  /\ ~call.throws
  /\ get_memory_regions = <<>>

\* entry i of the table is a process directory whose comm file declares
\* exactly the name
Matches(table, i, process_name) ==
  /\ table[i].is_directory
  /\ only_digits(table[i].name)
  /\ table[i].comm.is_open
  /\ Head(table[i].comm.lines) = process_name

MatchingEntries(table, process_name) ==
  {i \in 1..Len(table) : Matches(table, i, process_name)}

\* the lookup returned the identifier of the first matching entry in the
\* table's iteration order, and nothing when no entry matches
FirstMatchReturned(c, table) ==
  IF MatchingEntries(table, c.process_name) = {} THEN ~c.has_value
  ELSE /\ c.has_value
       /\ \E i \in MatchingEntries(table, c.process_name) :
            /\ \A j \in MatchingEntries(table, c.process_name) : i <= j
            /\ c.value = stoi(table[i].name)

AddressFields ==
  { [text  |-> Chars("00400000-00401000"),
     start |-> <<0, 0, 4, 0, 0, 0, 0, 0>>,
     end   |-> <<0, 0, 4, 0, 1, 0, 0, 0>>],
    [text  |-> Chars("7f1c2a400000-7f1c2a5c0000"),
     start |-> <<7, 15, 1, 12, 2, 10, 4, 0, 0, 0, 0, 0>>,
     end   |-> <<7, 15, 1, 12, 2, 10, 5, 12, 0, 0, 0, 0>>],
    [text  |-> Chars("ffffffffff600000-ffffffffff601000"),
     start |-> <<15, 15, 15, 15, 15, 15, 15, 15, 15, 15, 6, 0, 0, 0, 0, 0>>,
     end   |-> <<15, 15, 15, 15, 15, 15, 15, 15, 15, 15, 6, 0, 1, 0, 0, 0>>] }

PermissionFields ==
  {<<r, w, x, s>> : r \in {"r", "-"}, w \in {"w", "-"}, x \in {"x", "-"}, s \in {"s", "p"}}

\* a SCSI disk, and an NVMe partition (major 259 is printed as 103)
DeviceFields == {Chars("08:01"), Chars("103:02")}

\* no name, a shared object, a pseudo-name, a file that is no shared
\* object, and a shared object below a directory with a bracket in its name
NameFields ==
  {<<>>, Chars("/usr/lib/libc-2.31.so"), Chars("[stack]"), Chars("/usr/bin/cat"),
   Chars("/home/u/my[1]/libfoo.so")}

\* the inode of a mapped file, and 0 for a mapping without one
InodeField(name) ==
  IF Len(name) > 0 /\ name[1] = "/" THEN Chars("1835789") ELSE Chars("0")

\* the name column: the kernel pads the line to column 73; the example of
\* the documentation puts two blanks before the name
NameColumns == {"padded", "two blanks"}

Blanks(n) == [i \in 1..n |-> " "]

NamePadding(prefix, column) ==
  IF column = "padded" /\ Len(prefix) < 73 THEN Blanks(73 - Len(prefix))
  ELSE IF column = "padded" THEN Blanks(1)
  ELSE Blanks(2)

LinePrefix(address, perms, device, name) ==
  address.text \o <<" ">> \o perms \o Chars(" 00000000 ") \o device \o <<" ">>
    \o InodeField(name)

WithName(prefix, name, column) ==
  IF Len(name) = 0 THEN prefix ELSE prefix \o NamePadding(prefix, column) \o name

WellFormedLine(address, perms, device, name, column) ==
  WithName(LinePrefix(address, perms, device, name), name, column)

\* one pass of the loop body over a well-formed line
ParseWellFormedLine(address, perms, device, name, column, indeterminate) ==
  /\ call.op = "none"
  /\ call' = [op |-> "parse_line", transfers |-> <<>>,
              address |-> address, perms |-> perms, device |-> device,
              name |-> name, column |-> column,
              line |-> WellFormedLine(address, perms, device, name, column),
              ret |-> parse_line(WellFormedLine(address, perms, device, name, column),
                                 indeterminate)]
  /\ UNCHANGED <<NDEBUG, proc, mem, pc, m_id, m_name, m_regions, halted, writes>>

NextParser ==
  \E address \in AddressFields, perms \in PermissionFields, device \in DeviceFields,
     name \in NameFields, column \in NameColumns, indeterminate \in BOOLEAN :
    ParseWellFormedLine(address, perms, device, name, column, indeterminate)

SpecParser == Init /\ [][NextParser]_vars

\* C16: for every well-formed descriptor line, whatever the width of its
\* fields and the column at which the path starts, the parser returns
\* exactly one region for the line, with start and end equal to the line's
\* two hexadecimal addresses.
C16_OneRegionPerLine ==
  call.op = "parse_line" =>
    /\ ~call.ret.throws
    /\ call.ret.region.start = to64(call.address.start)
    /\ call.ret.region.end = to64(call.address.end)

\* the loop body has returned a region for the line
RegionParsed == call.op = "parse_line" /\ ~call.ret.throws

\* C17: for every 4-character permission field drawn from
\* {r,-} x {w,-} x {x,-} x {s,p}, the parsed region has readable true
\* exactly when the first character is r, writable exactly when the second
\* is w, executable exactly when the third is x, and shared exactly when
\* the fourth is s.
C17_PermissionFlags ==
  RegionParsed =>
    /\ call.ret.region.readable = (call.perms[1] = "r")
    /\ call.ret.region.writable = (call.perms[2] = "w")
    /\ call.ret.region.executable = (call.perms[3] = "x")
    /\ call.ret.region.shared = (call.perms[4] = "s")

\* C17: a line with the permission field rwxs has given a region with all
\* four flags true
C17_Witness ==
  /\ RegionParsed
  /\ call.perms = <<"r", "w", "x", "s">>
  /\ call.ret.region.readable
  /\ call.ret.region.writable
  /\ call.ret.region.executable
  /\ call.ret.region.shared

\* the name of the line holds a bracket, or the substring ".so"
HasBracket(name) == \E i \in 1..Len(name) : name[i] = "["

HasSharedObject(name) ==
  \E i \in 1..(Len(name) - 2) : SubSeq(name, i, i + 2) = Chars(".so")

\* C18: a parsed region whose line contains neither the substring ".so" nor
\* a bracket has empty path, empty filename and special equal to false, a
\* defined value; a region whose line contains a bracket has special =
\* true; a region whose line contains ".so" and no bracket has special =
\* false.
C18_SpecialDefined ==
  RegionParsed =>
    /\ (~HasBracket(call.name) /\ ~HasSharedObject(call.name)) =>
         /\ call.ret.region.path = <<>>
         /\ call.ret.region.filename = <<>>
         /\ call.ret.region.special = FALSE
    /\ HasBracket(call.name) => call.ret.region.special = TRUE
    /\ (HasSharedObject(call.name) /\ ~HasBracket(call.name)) =>
         call.ret.region.special = FALSE

\* C19: a region parsed from a line whose trailing text is a bracketed
\* pseudo-name such as [stack] has special = true, an empty path and an
\* empty filename, and no special region satisfies the module filter or
\* carries a non-empty filename.
C19_SpecialRegionUnnamed ==
  RegionParsed =>
    /\ call.name = Chars("[stack]") =>
         /\ call.ret.region.special = TRUE
         /\ call.ret.region.path = <<>>
         /\ call.ret.region.filename = <<>>
    /\ call.ret.region.special = TRUE =>
         /\ call.ret.region.filename = <<>>
         /\ get_modules(<<call.ret.region>>) = <<>>

\* C20: get_modules does not modify its input: a step that calls it on the
\* cached regions leaves every cached region, filename included, as it was,
\* the sequence passed in is the cache after the call, and calling it again
\* on the same cached regions returns the same list.
GetModulesStep == call' # call /\ call'.op = "get_modules"

C20_InputUnmodified ==
  [][GetModulesStep =>
       /\ m_regions' = m_regions
       /\ halted' = "no" =>
            /\ call'.regions = m_regions'
            /\ get_modules(m_regions') = call'.ret]_vars

\* get_modules has returned a module of the cached regions, which still hold it
C20_Witness ==
  /\ call.op = "get_modules"
  /\ halted = "no"
  /\ call.ret # <<>>
  /\ call.regions = m_regions
  /\ \E i \in 1..Len(m_regions) : m_regions[i].filename = call.ret[1]

\* the operations that hand a buffer to process_vm_readv / process_vm_writev
MemoryOperations == {"read_memory", "write_memory", "get_call_address"}

\* the last call was a memory operation that passed its precondition check
MemoryCallMade == call.op \in MemoryOperations /\ halted # "assert"

TransferSyscall(op) ==
  IF op = "write_memory" THEN "process_vm_writev" ELSE "process_vm_readv"

\* the call issued one transfer request, of its own direction
OneTransferIssued ==
  /\ Len(call.transfers) = 1
  /\ call.transfers[1].syscall = TransferSyscall(call.op)

C22_LocalBufferIsSize ==
  (MemoryCallMade /\ call.op \in {"read_memory", "write_memory"}) =>
     /\ call.transfers[1].local_len = call.size
     /\ call.transfers[1].local_size = call.size
     /\ call.transfers[1].local_len <= call.transfers[1].local_size

=============================================================================
